---- MODULE Spec2Model ----
(***************************************************************************)
(* Consultation session engine of SiriusJobs: the session document, the    *)
(* payment verification / extension / status handlers, the expiry sweep    *)
(* and the socket handlers that activate sessions and relay chat.          *)
(*                                                                         *)
(* Request handlers are asynchronous: a handler reads a document, awaits,  *)
(* mutates its in-memory copy and saves it.  Each handler is modelled as a *)
(* request slot that first takes a snapshot of the document (Begin...) and *)
(* later completes against that snapshot (Finish...).  document.save()     *)
(* writes back only the paths whose value was changed on the in-memory     *)
(* copy (Save), and appends pushed array elements.                         *)
(***************************************************************************)
EXTENDS Integers, Sequences, FiniteSets, TLC

\* ------------------------------------------------------------------ bounds
MaxTicks == 2
MaxHours == 2
MaxExtRefs == 2
MaxExt == 2
MaxMsgs == 1
MaxPayments == 2
MaxDays == 7

\* ------------------------------------------------------- program constants
HourMs == 3600000
DayMs == 24 * 60 * 60 * 1000
DEFAULT_PRICE_PER_HOUR == 5000
MINIMUM_HOURS == 1
MAXIMUM_HOURS == 8
CONSULTATION_FEE == 3000
PROFESSIONAL_EARNING == 2500

NULL == -1
NaNDate == -2

VARIABLES
  now,        \* wall clock, in ms
  world,      \* which session ids, request slots, professionals, sockets exist
  sessions,   \* ConsultationSession collection: id -> document
  gateway,    \* Paystack: reference -> charge
  client,     \* the ConsultationClient document (counters)
  reqs,       \* in-flight requests: slot -> request
  sockets,    \* socket id -> socket.data
  msgs,       \* Message collection
  outcome,    \* the response the step just taken sent, if it sent one
  payments,   \* Payment collection: paystackReference -> document
  profiles,   \* ProfessionalProfile collection: professional -> document
  reviews     \* Review collection, in insertion order

vars == <<now, world, sessions, gateway, client, reqs, sockets, msgs, outcome,
          payments, profiles, reviews>>

\* ---------------------------------------------------------------- documents
Terminal == {"expired", "completed", "cancelled", "ended"}

\* expiresIn of the two tokens: '7d' and '25h'
SESSION_TOKEN_TTL == 7 * DayMs
CLIENT_TOKEN_TTL == 25 * HourMs

\* a token: its type claim, the session it was issued for, its exp claim
NoToken == [kind |-> "none", sid |-> 0, exp |-> 0]

NoDoc ==
  [exists |-> FALSE, professionalId |-> "none", sessionToken |-> NoToken,
   paymentStatus |-> "pending", paymentAmount |-> 0, paymentReference |-> <<"none", 0, 0>>,
   status |-> "pending", selectedDuration |-> NULL, currentDuration |-> NULL,
   durationHours |-> NULL, pricePerHour |-> NULL,
   startedAt |-> NULL, endsAt |-> NULL, expiresAt |-> NULL,
   isExtended |-> FALSE, extensionCount |-> 0, extensions |-> << >>,
   lastMessageAt |-> NULL, hasUnreadMessages |-> FALSE, messages |-> << >>,
   paymentId |-> <<"none", 0, 0>>, amountPaid |-> 0]

InitialRef(s) == <<"CONSULT", s, 0>>
ExtendRef(s, k) == <<"EXTEND", s, k>>

\* reference.startsWith('EXTEND_')
IsExtensionRef(ref) == ref[1] = "EXTEND"

\* reference.split('_')[1]
SessionIdOfRef(ref) == ref[2]

\* the elements pushed onto an array since the snapshot was read
Pushed(snapArr, localArr) == SubSeq(localArr, Len(snapArr) + 1, Len(localArr))

\* document.save(): $set of the modified paths, $push of the pushed elements
Save(db, snap, local) ==
  [f \in DOMAIN db |->
     IF f \in {"extensions", "messages"}
       THEN db[f] \o Pushed(snap[f], local[f])
       ELSE IF local[f] # snap[f] THEN local[f] ELSE db[f]]

\* Date arithmetic: Date.now() + undefined is an Invalid Date
AddMs(t, d) == IF d = NULL \/ t = NULL \/ t = NaNDate THEN NaNDate ELSE t + d

\* new Date() > d, false for an Invalid Date
Later(t, d) == d # NaNDate /\ t > d

isExpired(doc, t) == IF doc.expiresAt = NULL THEN FALSE ELSE Later(t, doc.expiresAt)

isActive(doc, t) ==
  doc.status = "active" /\ doc.paymentStatus = "completed" /\ ~isExpired(doc, t)

\* its caller has just set paymentStatus to completed, so its guard passes
startSession(doc, t) ==
  [doc EXCEPT !.status = "active", !.startedAt = t,
              !.expiresAt = AddMs(t, doc.currentDuration),
              !.endsAt = AddMs(t, doc.currentDuration)]

calculateExtensionCost(doc, additionalHours) == additionalHours * doc.pricePerHour

CanExtend(doc, additionalHours) == doc.status = "active" /\ additionalHours >= 1

\* extendSession with the new expiry counted from the time of the call
extendSessionFromNow(doc, additionalHours, ref, t) ==
  LET additionalMs == additionalHours * HourMs
      additionalAmount == additionalHours * doc.pricePerHour
      newExpiresAt == t + additionalMs
  IN [doc EXCEPT
        !.extensions = Append(doc.extensions,
            [extendedAt |-> t, additionalHours |-> additionalHours,
             additionalAmount |-> additionalAmount, paymentReference |-> ref,
             newExpiresAt |-> newExpiresAt]),
        !.isExtended = TRUE,
        !.extensionCount = doc.extensionCount + 1,
        !.currentDuration = doc.currentDuration + additionalMs,
        !.expiresAt = newExpiresAt,
        !.endsAt = newExpiresAt,
        !.paymentAmount = doc.paymentAmount + additionalAmount]

extendSession(doc, additionalHours, ref, t) ==
  LET additionalMs == additionalHours * HourMs
      additionalAmount == additionalHours * doc.pricePerHour
      newExpiresAt == (IF doc.expiresAt \in {NULL, NaNDate} THEN t ELSE doc.expiresAt)
                        + additionalMs
  IN [doc EXCEPT
        !.extensions = Append(doc.extensions,
            [extendedAt |-> t, additionalHours |-> additionalHours,
             additionalAmount |-> additionalAmount, paymentReference |-> ref,
             newExpiresAt |-> newExpiresAt]),
        !.isExtended = TRUE,
        !.extensionCount = doc.extensionCount + 1,
        !.currentDuration = doc.currentDuration + additionalMs,
        !.expiresAt = newExpiresAt,
        !.endsAt = newExpiresAt,
        !.paymentAmount = doc.paymentAmount + additionalAmount]

\* a ProfessionalProfile before any payment or review; rating is kept as the
\* pair (ratingSum, totalReviews): rating = ratingSum / totalReviews
NoProfile == [isVerified |-> FALSE, totalEarnings |-> 0, ratingSum |-> 0,
              totalReviews |-> 0]

\* ----------------------------------------------------------------- requests
NoRef == <<"none", 0, 0>>

\* who is behind a request or a socket: the client of a session, an
\* authenticated professional, or somebody with no credential at all
Nobody == [type |-> "none", sid |-> 0, pro |-> "none"]
ClientOf(s) == [type |-> "client", sid |-> s, pro |-> "none"]
StaffOf(pro) == [type |-> "staff", sid |-> 0, pro |-> pro]
Outsider == [type |-> "outsider", sid |-> 0, pro |-> "none"]

Idle == [op |-> "idle", sid |-> 0, snap |-> NoDoc, local |-> NoDoc, ref |-> NoRef,
         sock |-> 0, arg |-> "none", closed |-> FALSE, by |-> Nobody, earnings |-> 0,
         cred |-> 0]

\* a response: the operation, its result, the session it was about, who asked
\* and the session their client credential (token or socket binding) names
NoData == [status |-> "none", expiresAt |-> NULL, isActive |-> FALSE]

Reply(op, result, s, by) ==
  [op |-> op, result |-> result, sid |-> s, by |-> by, cred |-> 0,
   from |-> 0, delivered |-> {}, data |-> NoData]

NoOutcome == Reply("none", "none", 0, Nobody)

\* the response of a request made with a client credential: the slot is free
RespondAs(p, op, result, s, by, cred) ==
  /\ reqs' = [reqs EXCEPT ![p] = Idle]
  /\ outcome' = [Reply(op, result, s, by) EXCEPT !.cred = cred]

\* the response of a request: the slot is free again
Respond(p, op, result, s, by) == RespondAs(p, op, result, s, by, 0)

\* a handler ends with an emit: socket from sent it, the sockets to receive it
Emit(p, op, result, s, by, cred, from, to) ==
  /\ reqs' = [reqs EXCEPT ![p] = Idle]
  /\ outcome' = [Reply(op, result, s, by) EXCEPT !.cred = cred, !.from = from,
                                                 !.delivered = to]

IdleSlots == {p \in world.slots : reqs[p].op = "idle"}

ExistingIds == {s \in world.sids : sessions[s].exists}

\* ConsultationSession.findOne({ paymentReference: reference })
FindByPaymentReference(ref) ==
  {s \in ExistingIds : sessions[s].paymentReference = ref}

\* ConsultationSession.findOne({ sessionToken })
FindByToken(tok) == {s \in ExistingIds : sessions[s].sessionToken = tok}

\* -------------------------------------------------- booking and the gateway
\* the pending session the booking request creates
NewSession(s, durationHours, pro) ==
  [NoDoc EXCEPT
     !.exists = TRUE, !.professionalId = pro,
     !.sessionToken = [kind |-> "consultation_session", sid |-> s,
                       exp |-> now + SESSION_TOKEN_TTL],
     !.paymentStatus = "pending",
     !.paymentAmount = DEFAULT_PRICE_PER_HOUR * durationHours,
     !.paymentReference = InitialRef(s),
     !.status = "pending",
     !.selectedDuration = durationHours * HourMs,
     !.currentDuration = durationHours * HourMs,
     !.durationHours = durationHours,
     !.pricePerHour = DEFAULT_PRICE_PER_HOUR]

\* POST /api/consultation/payment/initialize
InitializeConsultationPayment(s, durationHours, pro) ==
  /\ ~sessions[s].exists
  /\ durationHours >= MINIMUM_HOURS
  /\ durationHours <= MAXIMUM_HOURS
  /\ sessions' = [sessions EXCEPT ![s] = NewSession(s, durationHours, pro)]
  /\ gateway' = gateway @@ (InitialRef(s) :> [additionalHours |-> 0, status |-> "pending"])
  /\ outcome' = Reply("initialize", "ok", s, ClientOf(s))
  /\ UNCHANGED <<now, world, client, reqs, sockets, msgs, payments, profiles, reviews>>

ExtendRefsOf(s) == {r \in DOMAIN gateway : IsExtensionRef(r) /\ SessionIdOfRef(r) = s}

\* POST /api/consultation/payment/extend
InitializeSessionExtension(s, additionalHours) ==
  /\ sessions[s].exists
  /\ additionalHours >= 1
  /\ Cardinality(ExtendRefsOf(s)) < MaxExtRefs
  /\ IF sessions[s].status # "active"
       THEN /\ outcome' = Reply("initExtend", "SessionNotActive", s, ClientOf(s))
            /\ UNCHANGED gateway
       ELSE IF isExpired(sessions[s], now)
       THEN /\ outcome' = Reply("initExtend", "SessionAlreadyExpired", s, ClientOf(s))
            /\ UNCHANGED gateway
       ELSE /\ gateway' = gateway @@
                  (ExtendRef(s, Cardinality(ExtendRefsOf(s)) + 1) :>
                     [additionalHours |-> additionalHours, status |-> "pending"])
            /\ outcome' = Reply("initExtend", "ok", s, ClientOf(s))
  /\ UNCHANGED <<now, world, sessions, client, reqs, sockets, msgs, payments, profiles, reviews>>

\* the customer completes the charge at the gateway
GatewayCharge(ref) ==
  /\ ref \in DOMAIN gateway
  /\ gateway[ref].status = "pending"
  /\ gateway' = [gateway EXCEPT ![ref].status = "success"]
  /\ outcome' = NoOutcome
  /\ UNCHANGED <<now, world, sessions, client, reqs, sockets, msgs, payments, profiles, reviews>>

\* ------------------------------ the fixed-fee booking: payment.service.ts
PaymentRef(k) == <<"PAY", k, 0>>

\* POST /api/payments/consultation: a Payment record and a gateway charge
initializeConsultation(pro) ==
  /\ Cardinality(DOMAIN payments) < MaxPayments
  /\ LET ref == PaymentRef(Cardinality(DOMAIN payments) + 1)
     IN /\ payments' = payments @@
               (ref :> [userId |-> pro, paymentType |-> "consultation",
                        amount |-> CONSULTATION_FEE, status |-> "pending"])
        /\ gateway' = gateway @@ (ref :> [additionalHours |-> 0, status |-> "pending"])
  /\ outcome' = NoOutcome
  /\ UNCHANGED <<now, world, sessions, client, reqs, sockets, msgs, profiles, reviews>>

FreeIds == {s \in world.sids : ~sessions[s].exists}

\* verifyAndProcessPayment up to processConsultation's read of the profile;
\* entry is the caller: bookConsultation, verifyPayment or paystackWebhook
BeginProcessPayment(p, entry, ref) ==
  /\ p \in IdleSlots
  /\ ref \in DOMAIN gateway
  /\ FreeIds # {}
  /\ IF entry = "bookConsultation" /\ ref \in DOMAIN payments
        /\ ~profiles[payments[ref].userId].isVerified
       THEN /\ Respond(p, entry, "ProfessionalUnavailable", 0, Nobody)
            /\ UNCHANGED payments
       ELSE IF gateway[ref].status # "success"
       THEN /\ Respond(p, entry, "PaymentUnverified", 0, Nobody)
            /\ UNCHANGED payments
       ELSE IF ref \notin DOMAIN payments
       THEN /\ Respond(p, entry, "NotFound", 0, Nobody)
            /\ UNCHANGED payments
       ELSE /\ payments' = [payments EXCEPT ![ref].status = "completed"]
            /\ reqs' = [reqs EXCEPT ![p] =
                  [Idle EXCEPT !.op = entry, !.ref = ref,
                     !.earnings = profiles[payments[ref].userId].totalEarnings]]
            /\ outcome' = NoOutcome
  /\ UNCHANGED <<now, world, sessions, gateway, client, sockets, msgs, profiles, reviews>>

\* the session processConsultation creates for a payment
ConsultationDoc(s, ref) ==
  [NoDoc EXCEPT !.exists = TRUE, !.professionalId = payments[ref].userId,
                !.sessionToken = [kind |-> "client_session", sid |-> s,
                                  exp |-> now + CLIENT_TOKEN_TTL],
                !.status = "pending", !.paymentId = ref,
                !.amountPaid = payments[ref].amount]

\* processConsultation: create the session, mint its token, credit the earning
FinishProcessPayment(p) ==
  LET r == reqs[p]
      s == CHOOSE x \in FreeIds : \A y \in FreeIds : x <= y
  IN /\ r.op \in {"bookConsultation", "verifyPayment", "paystackWebhook"}
     /\ FreeIds # {}
     /\ sessions' = [sessions EXCEPT ![s] = ConsultationDoc(s, r.ref)]
     /\ profiles' = [profiles EXCEPT ![payments[r.ref].userId].totalEarnings =
                       r.earnings + PROFESSIONAL_EARNING]
     /\ Respond(p, r.op, "processed", s, Nobody)
     /\ UNCHANGED <<now, world, gateway, client, sockets, msgs, payments, reviews>>

\* the sessions created for a payment
SessionsOfPayment(ref) == {s \in ExistingIds : sessions[s].paymentId = ref}

\* ------------------------------------------- GET /payment/verify/:reference
\* the handler up to its first await: find the session of the reference
BeginVerify(p, ref) ==
  /\ p \in IdleSlots
  /\ ref \in DOMAIN gateway
  /\ LET found == IF IsExtensionRef(ref)
                    THEN {SessionIdOfRef(ref)} \cap ExistingIds
                    ELSE FindByPaymentReference(ref)
     IN /\ found # {}
        /\ \E s \in found :
             /\ IsExtensionRef(ref) => Len(sessions[s].extensions) < MaxExt
             /\ reqs' = [reqs EXCEPT ![p] =
               [Idle EXCEPT !.op = "verify", !.sid = s, !.snap = sessions[s], !.ref = ref]]
  /\ outcome' = NoOutcome
  /\ UNCHANGED <<now, world, sessions, gateway, client, sockets, msgs, payments, profiles, reviews>>

\* a handler that would record the payment before the gateway confirmed it
VerifyNotConfirmedRecords(p) ==
  /\ reqs[p].op = "verify"
  /\ sessions' = [sessions EXCEPT ![reqs[p].sid].paymentStatus = "completed"]
  /\ Respond(p, "verify", "PaymentUnverified", reqs[p].sid, Nobody)
  /\ UNCHANGED <<now, world, gateway, client, sockets, msgs, payments, profiles, reviews>>

\* the gateway call throws, or reports a charge that is not successful
VerifyNotConfirmed(p) ==
  /\ reqs[p].op = "verify"
  /\ Respond(p, "verify", "PaymentUnverified", reqs[p].sid, Nobody)
  /\ UNCHANGED <<now, world, sessions, gateway, client, sockets, msgs, payments, profiles, reviews>>

\* the extension branch, after the gateway confirmed the charge
FinishVerifyExtension(p) ==
  LET r == reqs[p]
      s == r.sid
      additionalHours == IF gateway[r.ref].additionalHours = 0 THEN 1
                         ELSE gateway[r.ref].additionalHours
  IN /\ r.op = "verify"
     /\ IsExtensionRef(r.ref)
     /\ gateway[r.ref].status = "success"
     /\ IF CanExtend(r.snap, additionalHours)
          THEN /\ sessions' = [sessions EXCEPT ![s] =
                     Save(sessions[s], r.snap, extendSession(r.snap, additionalHours, r.ref, now))]
               /\ Respond(p, "verify", "extended", s, Nobody)
          ELSE /\ UNCHANGED sessions
               /\ Respond(p, "verify", "SessionNotActive", s, Nobody)
     /\ UNCHANGED <<now, world, gateway, client, sockets, msgs, payments, profiles, reviews>>

\* the initial payment branch, after the gateway confirmed the charge
FinishVerifyInitial(p) ==
  LET r == reqs[p]
      s == r.sid
  IN /\ r.op = "verify"
     /\ ~IsExtensionRef(r.ref)
     /\ gateway[r.ref].status = "success"
     /\ IF r.snap.paymentStatus = "completed"
          THEN /\ UNCHANGED <<sessions, client>>
               /\ Respond(p, "verify", "alreadyVerified", s, Nobody)
          ELSE /\ sessions' = [sessions EXCEPT ![s] =
                     Save(sessions[s], r.snap,
                          startSession([r.snap EXCEPT !.paymentStatus = "completed"], now))]
               /\ client' = [client EXCEPT !.totalSessions = @ + 1, !.activeSessions = @ + 1]
               /\ Respond(p, "verify", "activated", s, Nobody)
     /\ UNCHANGED <<now, world, gateway, sockets, msgs, payments, profiles, reviews>>

\* --------------------------------------- GET /payment/session/:sessionId
\* find the session, check the token and decide on the lazy expiry
BeginStatus(p, by, s, tok) ==
  /\ p \in IdleSlots
  /\ s \in ExistingIds
  /\ IF sessions[s].sessionToken # tok
       THEN RespondAs(p, "status", "Unauthorized", s, by, tok.sid)
       ELSE /\ reqs' = [reqs EXCEPT ![p] =
                  [Idle EXCEPT !.op = "status", !.sid = s, !.snap = sessions[s], !.by = by,
                     !.cred = tok.sid,
                     !.local = IF isExpired(sessions[s], now) /\ sessions[s].status = "active"
                                 THEN [sessions[s] EXCEPT !.status = "expired"]
                                 ELSE sessions[s]]]
            /\ outcome' = NoOutcome
  /\ UNCHANGED <<now, world, sessions, gateway, client, sockets, msgs, payments, profiles, reviews>>

\* the save of the lazy expiry, the counter update and the response
FinishStatus(p) ==
  LET r == reqs[p]
      s == r.sid
  IN /\ r.op = "status"
     /\ sessions' = [sessions EXCEPT ![s] = Save(sessions[s], r.snap, r.local)]
     /\ client' = IF r.local.status # r.snap.status
                    THEN [client EXCEPT !.activeSessions = @ - 1] ELSE client
     /\ reqs' = [reqs EXCEPT ![p] = Idle]
     /\ outcome' = [Reply("status", "read", s, r.by) EXCEPT
                      !.cred = r.cred,
                      !.data = [status |-> r.local.status,
                                expiresAt |-> r.local.expiresAt,
                                isActive |-> isActive(r.local, now)]]
     /\ UNCHANGED <<now, world, gateway, sockets, msgs, payments, profiles, reviews>>

\* ------------------------------------------------------------ expiry sweep
\* ConsultationSession.expireOldSessions(): one updateMany
Matching(tbl, t) ==
  {s \in DOMAIN tbl : /\ tbl[s].exists
                      /\ tbl[s].status = "active"
                      /\ tbl[s].expiresAt \notin {NULL, NaNDate}
                      /\ tbl[s].expiresAt < t}

ToExpire(t) == Matching(sessions, t)

\* an updateOne in the place of the updateMany: the first match only
SweepFirst(tbl, t) ==
  [s \in DOMAIN tbl |->
     IF s \in Matching(tbl, t) /\ \A x \in Matching(tbl, t) : s <= x
       THEN [tbl[s] EXCEPT !.status = "expired"] ELSE tbl[s]]

\* a filter of $lte in the place of $lt
SweepInclusive(tbl, t) ==
  [s \in DOMAIN tbl |->
     IF /\ tbl[s].exists /\ tbl[s].status = "active"
        /\ tbl[s].expiresAt \notin {NULL, NaNDate} /\ tbl[s].expiresAt <= t
       THEN [tbl[s] EXCEPT !.status = "expired"] ELSE tbl[s]]

\* the collection after the updateMany at time t
Sweep(tbl, t) ==
  [s \in DOMAIN tbl |->
     IF s \in Matching(tbl, t) THEN [tbl[s] EXCEPT !.status = "expired"] ELSE tbl[s]]

expireOldSessions ==
  /\ ToExpire(now) # {}
  /\ sessions' = Sweep(sessions, now)
  /\ outcome' = NoOutcome
  /\ UNCHANGED <<now, world, gateway, client, reqs, sockets, msgs, payments, profiles, reviews>>

\* a day passes with no request in flight
TickDay ==
  /\ now < MaxDays * DayMs
  /\ \A p \in world.slots : reqs[p].op = "idle"
  /\ now' = now + DayMs
  /\ outcome' = NoOutcome
  /\ UNCHANGED <<world, sessions, gateway, client, reqs, sockets, msgs, payments,
                 profiles, reviews>>

\* an hour passes; requests take less than that, so none is in flight
Tick ==
  /\ now < MaxTicks * HourMs
  /\ \A p \in world.slots : reqs[p].op = "idle"
  /\ now' = now + HourMs
  /\ outcome' = NoOutcome
  /\ UNCHANGED <<world, sessions, gateway, client, reqs, sockets, msgs, payments, profiles, reviews>>

\* ----------------------------------------------------------- credentials
BadToken == [kind |-> "garbage", sid |-> 0, exp |-> 0]

\* the session tokens a principal has been given: the client by the booking
\* response, the professional in the documents of the sessions listing
TokensHeld(by) ==
  {sessions[s].sessionToken : s \in
     {x \in ExistingIds : \/ by = ClientOf(x)
                          \/ by = StaffOf(sessions[x].professionalId)}}

TokenChoices(by) == TokensHeld(by) \cup {BadToken}

\* verifyClientSessionToken: the session id of a token of type client_session
\* jwt.verify: the exp claim has not been reached
TokenValid(tok, t) == t < tok.exp

verifyClientSessionToken(tok) ==
  IF TokenValid(tok, now) /\ tok.kind = "client_session" THEN tok.sid ELSE 0

NoSocket == [by |-> Nobody, userType |-> "none", sessionId |-> 0,
             professionalId |-> "none", rooms |-> {}]

\* io.on('connection'): the handshake binds socket.data and joins the rooms
Binding(by, sessionToken, professionalId) ==
  IF sessionToken # NoToken
    THEN IF verifyClientSessionToken(sessionToken) # 0
           THEN [NoSocket EXCEPT !.by = by, !.userType = "client",
                                 !.sessionId = verifyClientSessionToken(sessionToken),
                                 !.rooms = {verifyClientSessionToken(sessionToken)}]
           ELSE [NoSocket EXCEPT !.by = by]
    ELSE IF professionalId # "none"
           THEN [NoSocket EXCEPT !.by = by, !.userType = "professional",
                                 !.professionalId = professionalId]
           ELSE [NoSocket EXCEPT !.by = by]

Connect(c, by, sessionToken, professionalId) ==
  /\ \A p \in world.slots : reqs[p].sock # c
  /\ sockets[c] # Binding(by, sessionToken, professionalId)
  /\ sockets' = [sockets EXCEPT ![c] = Binding(by, sessionToken, professionalId)]
  /\ outcome' = NoOutcome
  /\ UNCHANGED <<now, world, sessions, gateway, client, reqs, msgs, payments, profiles, reviews>>

Connected == {c \in world.socks : sockets[c].by # Nobody}

\* io.to(`consultation:${sessionId}`): the sockets joined to the session's room
InRoom(s) == {c \in world.socks : s \in sockets[c].rooms}

\* chat turns persisted so far, in the Message collection and on the sessions
MessageCount ==
  Cardinality(msgs) +
  Cardinality({<<s, i>> \in world.sids \X (1..MaxMsgs) : i <= Len(sessions[s].messages)})

\* the session is over when the message arrives
ClosedAt(doc, t) == doc.status \in Terminal \/ isExpired(doc, t)

\* ------------------------------------ socket event consultation:message
\* the sender authorization of consultation:message
MaySend(sock, doc, sessionId) ==
  \/ sock.userType = "client" /\ sock.sessionId = sessionId
  \/ sock.userType = "professional" /\ doc.professionalId = sock.professionalId

SenderType(sock) == sock.userType

\* find the session, check its status, its end and the sender
BeginConsultationMessage(p, c, s) ==
  /\ p \in IdleSlots
  /\ c \in Connected
  /\ s \in world.sids
  /\ MessageCount < MaxMsgs
  /\ LET doc == sessions[s]
         by == sockets[c].by
         cred == sockets[c].sessionId
     IN IF ~doc.exists
          THEN RespondAs(p, "consultation:message", "NotFound", s, by, cred)
          ELSE IF doc.status \notin {"active", "pending"}
          THEN RespondAs(p, "consultation:message", "SessionClosed", s, by, cred)
          ELSE IF doc.endsAt # NULL /\ Later(now, doc.endsAt)
          THEN RespondAs(p, "consultation:message", "SessionClosed", s, by, cred)
          ELSE IF ~MaySend(sockets[c], doc, s)
          THEN RespondAs(p, "consultation:message", "Unauthorized", s, by, cred)
          ELSE /\ reqs' = [reqs EXCEPT ![p] =
                     [Idle EXCEPT !.op = "consultation:message", !.sid = s, !.snap = doc,
                        !.sock = c, !.arg = SenderType(sockets[c]), !.by = by,
                        !.cred = cred, !.closed = ClosedAt(doc, now)]]
               /\ outcome' = NoOutcome
  /\ UNCHANGED <<now, world, sessions, gateway, client, sockets, msgs, payments, profiles, reviews>>

\* the session as the handler leaves it: last message, unread flag, activation
AfterMessage(doc, senderType, t) ==
  LET d1 == [doc EXCEPT !.lastMessageAt = t,
                        !.hasUnreadMessages = IF senderType = "client" THEN TRUE ELSE @]
  IN IF doc.status = "pending"
       THEN [d1 EXCEPT !.status = "active", !.startedAt = t, !.endsAt = t + DayMs]
       ELSE d1

\* a handler that broadcasts a message it has not saved
BroadcastUnsaved(p) ==
  LET r == reqs[p]
  IN /\ r.op = "consultation:message"
     /\ Emit(p, "consultation:message", "sent", r.sid, r.by, r.cred, r.sock, InRoom(r.sid))
     /\ UNCHANGED <<now, world, sessions, gateway, client, sockets, msgs, payments,
                    profiles, reviews>>

\* message.save(), session.save() and the broadcast to the room
FinishConsultationMessage(p) ==
  LET r == reqs[p]
      s == r.sid
  IN /\ r.op = "consultation:message"
     /\ msgs' = msgs \cup {[sessionId |-> s, senderType |-> r.arg, by |-> r.by,
                            closed |-> r.closed, via |-> "consultation:message"]}
     /\ sessions' = [sessions EXCEPT ![s] =
           Save(sessions[s], r.snap, AfterMessage(r.snap, r.arg, now))]
     /\ Emit(p, "consultation:message", "sent", s, r.by, r.cred, r.sock, InRoom(s))
     /\ UNCHANGED <<now, world, gateway, client, sockets, payments, profiles, reviews>>

\* ------------------------------------------ socket event join:consultation
JoinActivation(doc, t) ==
  IF doc.status = "pending"
    THEN [doc EXCEPT !.status = "active", !.startedAt = t,
                     !.expiresAt = AddMs(t, doc.currentDuration)]
    ELSE doc

BeginJoinConsultation(p, c, tok) ==
  /\ p \in IdleSlots
  /\ c \in Connected
  /\ LET by == sockets[c].by
     IN IF FindByToken(tok) = {}
          THEN RespondAs(p, "join:consultation", "InvalidToken", 0, by, tok.sid)
          ELSE \E s \in FindByToken(tok) :
                 IF sessions[s].expiresAt # NULL /\ Later(now, sessions[s].expiresAt)
                   THEN RespondAs(p, "join:consultation", "SessionClosed", s, by, tok.sid)
                   ELSE /\ reqs' = [reqs EXCEPT ![p] =
                              [Idle EXCEPT !.op = "join:consultation", !.sid = s,
                                 !.snap = sessions[s], !.sock = c, !.by = by,
                                 !.cred = tok.sid,
                                 !.local = JoinActivation(sessions[s], now)]]
                        /\ outcome' = NoOutcome
  /\ UNCHANGED <<now, world, sessions, gateway, client, sockets, msgs, payments, profiles, reviews>>

FinishJoinConsultation(p) ==
  LET r == reqs[p]
      s == r.sid
  IN /\ r.op = "join:consultation"
     /\ sessions' = [sessions EXCEPT ![s] = Save(sessions[s], r.snap, r.local)]
     /\ sockets' = [sockets EXCEPT ![r.sock].rooms = @ \cup {s}]
     /\ RespondAs(p, "join:consultation", "joined", s, r.by, r.cred)
     /\ UNCHANGED <<now, world, gateway, client, msgs, payments, profiles, reviews>>

\* ------------------------------------------------ socket event message:send
BeginMessageSend(p, c, tok, senderType) ==
  /\ p \in IdleSlots
  /\ c \in Connected
  /\ LET by == sockets[c].by
     IN IF FindByToken(tok) = {}
          THEN RespondAs(p, "message:send", "InvalidToken", 0, by, tok.sid)
          ELSE \E s \in FindByToken(tok) :
                 /\ MessageCount < MaxMsgs
                 /\ IF sessions[s].expiresAt # NULL /\ Later(now, sessions[s].expiresAt)
                      THEN RespondAs(p, "message:send", "SessionClosed", s, by, tok.sid)
                      ELSE /\ reqs' = [reqs EXCEPT ![p] =
                                 [Idle EXCEPT !.op = "message:send", !.sid = s,
                                    !.snap = sessions[s], !.sock = c, !.by = by,
                                    !.arg = senderType, !.cred = tok.sid,
                                    !.closed = ClosedAt(sessions[s], now)]]
                           /\ outcome' = NoOutcome
  /\ UNCHANGED <<now, world, sessions, gateway, client, sockets, msgs, payments, profiles, reviews>>

\* session.addMessage(messageData): push onto messages and save
addMessage(doc, message) == [doc EXCEPT !.messages = Append(@, message)]

FinishMessageSend(p) ==
  LET r == reqs[p]
      s == r.sid
  IN /\ r.op = "message:send"
     /\ sessions' = [sessions EXCEPT ![s] =
           Save(sessions[s], r.snap,
                addMessage(r.snap, [sessionId |-> s, senderType |-> r.arg, by |-> r.by,
                                    closed |-> r.closed, via |-> "message:send"]))]
     /\ Emit(p, "message:send", "sent", s, r.by, r.cred, r.sock, InRoom(s))
     /\ UNCHANGED <<now, world, gateway, client, sockets, msgs, payments, profiles, reviews>>

\* addMessage is declared on the session document but the flexible-duration
\* schema defines no such method: the call then throws and nothing is sent
MessageSendThrows(p) ==
  /\ reqs[p].op = "message:send"
  /\ RespondAs(p, "message:send", "Failed", reqs[p].sid, reqs[p].by, reqs[p].cred)
  /\ UNCHANGED <<now, world, sessions, gateway, client, sockets, msgs, payments, profiles, reviews>>

\* ------------------------------------- socket event consultation:signal
\* find the session, require it active, check the sender, then forward to
\* the rest of the room; a signal that fails a check is dropped in silence
consultationSignal(c, s) ==
  /\ c \in Connected
  /\ s \in world.sids
  /\ LET doc == sessions[s]
         sock == sockets[c]
         dropped == [Reply("consultation:signal", "dropped", s, sock.by)
                       EXCEPT !.cred = sock.sessionId, !.from = c]
     IN outcome' =
          IF ~doc.exists THEN dropped
          ELSE IF doc.status # "active" THEN dropped
          ELSE IF ~MaySend(sock, doc, s) THEN dropped
          ELSE [dropped EXCEPT !.result = "forwarded",
                               !.delivered = InRoom(s) \ {c}]
  /\ UNCHANGED <<now, world, sessions, gateway, client, reqs, sockets, msgs,
                 payments, profiles, reviews>>

\* -------------------------------------------------- socket event call:signal
\* find the session by the token of the payload, then forward to the rest of
\* the room
callSignal(c, tok) ==
  /\ c \in Connected
  /\ LET sock == sockets[c]
     IN IF FindByToken(tok) = {}
          THEN outcome' = [Reply("call:signal", "InvalidSession", 0, sock.by)
                             EXCEPT !.cred = tok.sid, !.from = c]
          ELSE \E s \in FindByToken(tok) :
                 outcome' = [Reply("call:signal", "forwarded", s, sock.by)
                               EXCEPT !.cred = tok.sid, !.from = c,
                                      !.delivered = InRoom(s) \ {c}]
  /\ UNCHANGED <<now, world, sessions, gateway, client, reqs, sockets, msgs,
                 payments, profiles, reviews>>

\* every chat message that was persisted, on either path
AllMessages ==
  msgs \cup UNION {{sessions[s].messages[i] : i \in 1..Len(sessions[s].messages)} :
                    s \in ExistingIds}

\* ------------------------- GET /api/professionals/sessions/:sessionId/messages
getSessionMessages(by, s) ==
  /\ s \in ExistingIds
  /\ outcome' = IF by.type # "staff"
                  THEN Reply("messages", "Unauthenticated", s, by)
                  ELSE IF sessions[s].professionalId # by.pro
                  THEN Reply("messages", "Unauthorized", s, by)
                  ELSE Reply("messages", "read", s, by)
  /\ UNCHANGED <<now, world, sessions, gateway, client, reqs, sockets, msgs, payments, profiles, reviews>>

\* -------------------------------------- POST /api/professionals/:id/review
Ratings == {1, 5}

ReviewsOf(s) == {i \in 1..Len(reviews) : reviews[i].sessionId = s}

\* the unique index of the Review collection on sessionId refuses the insert
NoUniqueIndex(s) == FALSE

UniqueIndexRefuses(s) == ReviewsOf(s) # {}

\* find the session by id, token and professional; reviews only for expired
\* sessions
BeginSubmitReview(p, by, pro, s, tok, rating) ==
  /\ p \in IdleSlots
  /\ LET found == {x \in ExistingIds : /\ x = s
                                       /\ sessions[x].sessionToken = tok
                                       /\ sessions[x].professionalId = pro}
     IN IF found = {}
          THEN RespondAs(p, "submitReview", "InvalidSession", s, by, tok.sid)
          ELSE IF sessions[s].status # "expired"
          THEN RespondAs(p, "submitReview", "NotEnded", s, by, tok.sid)
          ELSE /\ reqs' = [reqs EXCEPT ![p] =
                     [Idle EXCEPT !.op = "submitReview", !.sid = s, !.by = by,
                                  !.cred = tok.sid, !.arg = rating]]
               /\ outcome' = NoOutcome
  /\ UNCHANGED <<now, world, sessions, gateway, client, sockets, msgs, payments,
                 profiles, reviews>>

\* Review.findOne({ sessionId }): a review of the session exists already
ReviewFindOne(p) ==
  LET r == reqs[p]
  IN /\ r.op = "submitReview"
     /\ IF ReviewsOf(r.sid) # {}
          THEN RespondAs(p, "submitReview", "AlreadyReviewed", r.sid, r.by, r.cred)
          ELSE /\ reqs' = [reqs EXCEPT ![p].op = "Review.create"]
               /\ outcome' = NoOutcome
     /\ UNCHANGED <<now, world, sessions, gateway, client, sockets, msgs, payments,
                    profiles, reviews>>

\* Review.create: the insert, or the duplicate key error the error
\* middleware answers with 409 "sessionId already exists"
ReviewCreate(p) ==
  LET r == reqs[p]
  IN /\ r.op = "Review.create"
     /\ IF UniqueIndexRefuses(r.sid)
          THEN /\ RespondAs(p, "submitReview", "AlreadyExists", r.sid, r.by, r.cred)
               /\ UNCHANGED reviews
          ELSE /\ reviews' = Append(reviews,
                     [sessionId |-> r.sid, rating |-> r.arg,
                      professionalId |-> sessions[r.sid].professionalId])
               /\ reqs' = [reqs EXCEPT ![p].op = "ProfessionalProfile.findOne"]
               /\ outcome' = NoOutcome
     /\ UNCHANGED <<now, world, sessions, gateway, client, sockets, msgs, payments,
                    profiles>>

\* ProfessionalProfile.findOne({ userId: professionalId })
ProfileFindOne(p) ==
  LET r == reqs[p]
  IN /\ r.op = "ProfessionalProfile.findOne"
     /\ reqs' = [reqs EXCEPT ![p].op = "updateRating",
                             ![p].snap = profiles[sessions[r.sid].professionalId]]
     /\ outcome' = NoOutcome
     /\ UNCHANGED <<now, world, sessions, gateway, client, sockets, msgs, payments,
                    profiles, reviews>>

\* updateRating: totalRating = rating * totalReviews, one review more, the
\* new average, save
updateRating(p) ==
  LET r == reqs[p]
      pro == sessions[r.sid].professionalId
  IN /\ r.op = "updateRating"
     /\ profiles' = [profiles EXCEPT
                       ![pro].totalReviews = r.snap.totalReviews + 1,
                       ![pro].ratingSum = r.snap.ratingSum + r.arg]
     /\ RespondAs(p, "submitReview", "submitted", r.sid, r.by, r.cred)
     /\ UNCHANGED <<now, world, sessions, gateway, client, sockets, msgs, payments,
                    reviews>>

\* a session the seed script stored: ended, its stamps in the past
SeededSession(s, pro) ==
  [NoDoc EXCEPT !.exists = TRUE, !.professionalId = pro,
                !.sessionToken = [kind |-> "client_session", sid |-> s, exp |-> 0],
                !.status = "ended", !.startedAt = 0, !.endsAt = 0,
                !.amountPaid = CONSULTATION_FEE]

\* ------------------------------------------------------------ specification
EmptyWorld == [sids |-> {}, slots |-> {}, socks |-> {}, pros |-> {}, people |-> {}]

InitState(w) ==
  /\ now = 0
  /\ world = w
  /\ sessions = [s \in w.sids |-> NoDoc]
  /\ gateway = << >>
  /\ client = [totalSessions |-> 0, activeSessions |-> 0]
  /\ reqs = [p \in w.slots |-> Idle]
  /\ sockets = [c \in w.socks |-> NoSocket]
  /\ msgs = {}
  /\ outcome = NoOutcome
  /\ payments = << >>
  /\ profiles = [pro \in w.pros |-> [NoProfile EXCEPT !.isVerified = TRUE]]
  /\ reviews = << >>

Booking ==
  \/ \E s \in world.sids, h \in 1..MaxHours, pro \in world.pros :
       InitializeConsultationPayment(s, h, pro)
  \/ \E s \in world.sids, h \in 1..MaxHours : InitializeSessionExtension(s, h)
  \/ \E ref \in DOMAIN gateway : GatewayCharge(ref)

Verification ==
  \/ \E p \in world.slots, ref \in DOMAIN gateway : BeginVerify(p, ref)
  \/ \E p \in world.slots : VerifyNotConfirmed(p)
  \/ \E p \in world.slots : FinishVerifyExtension(p)
  \/ \E p \in world.slots : FinishVerifyInitial(p)

StatusQuery ==
  \/ \E p \in world.slots, by \in world.people, s \in world.sids :
       \E tok \in TokenChoices(by) : BeginStatus(p, by, s, tok)
  \/ \E p \in world.slots : FinishStatus(p)

Handshake ==
  \E c \in world.socks, by \in world.people :
    \E tok \in TokenChoices(by) \cup {NoToken}, pro \in world.pros \cup {"none"} :
      Connect(c, by, tok, pro)

ConsultationMessage ==
  \/ \E p \in world.slots, c \in world.socks, s \in world.sids :
       BeginConsultationMessage(p, c, s)
  \/ \E p \in world.slots : FinishConsultationMessage(p)

JoinConsultation ==
  \/ \E p \in world.slots, c \in world.socks :
       \E tok \in TokenChoices(sockets[c].by) : BeginJoinConsultation(p, c, tok)
  \/ \E p \in world.slots : FinishJoinConsultation(p)

MessageSend ==
  \/ \E p \in world.slots, c \in world.socks :
       \E tok \in TokenChoices(sockets[c].by), st \in {"client", "professional"} :
         BeginMessageSend(p, c, tok, st)
  \/ \E p \in world.slots : FinishMessageSend(p)
  \/ \E p \in world.slots : MessageSendThrows(p)

\* one session and the requests that pay for it, extend it and expire it,
\* two of them in flight at a time
Init ==
  InitState([sids |-> {1}, slots |-> {1, 2}, socks |-> {}, pros |-> {"P1"},
             people |-> {ClientOf(1)}])

Next ==
  \/ Booking
  \/ Verification
  \/ StatusQuery
  \/ expireOldSessions
  \/ Tick

Spec == Init /\ [][Next]_vars

\* one session, one request at a time, every way of activating it and of
\* sending into it
InitChat ==
  InitState([sids |-> {1}, slots |-> {1}, socks |-> {1}, pros |-> {"P1"},
             people |-> {ClientOf(1), StaffOf("P1")}])

NextChat ==
  \/ \E s \in world.sids, h \in 1..MaxHours, pro \in world.pros :
       InitializeConsultationPayment(s, h, pro)
  \/ \E ref \in DOMAIN gateway : GatewayCharge(ref)
  \/ \E p \in world.slots, ref \in DOMAIN gateway : BeginVerify(p, ref)
  \/ \E p \in world.slots : VerifyNotConfirmed(p)
  \/ \E p \in world.slots : FinishVerifyInitial(p)
  \/ Handshake
  \/ ConsultationMessage
  \/ JoinConsultation
  \/ MessageSend
  \/ expireOldSessions
  \/ Tick

SpecChat == InitChat /\ [][NextChat]_vars

\* two sessions of one professional, the client of the first and the
\* professional, one request at a time: session 1 booked through the
\* fixed-fee flow, session 2 booked for one hour through the hourly flow
InitIso ==
  /\ now = 0
  /\ world = [sids |-> {1, 2}, slots |-> {1}, socks |-> {1}, pros |-> {"P1"},
              people |-> {ClientOf(1), StaffOf("P1")}]
  /\ payments = (PaymentRef(1) :>
                   [userId |-> "P1", paymentType |-> "consultation",
                    amount |-> CONSULTATION_FEE, status |-> "completed"])
  /\ gateway = (PaymentRef(1) :> [additionalHours |-> 0, status |-> "success"])
                 @@ (InitialRef(2) :> [additionalHours |-> 0, status |-> "pending"])
  /\ sessions = (1 :> [NoDoc EXCEPT !.exists = TRUE, !.professionalId = "P1",
                         !.sessionToken = [kind |-> "client_session", sid |-> 1,
                                           exp |-> CLIENT_TOKEN_TTL],
                         !.status = "pending", !.paymentId = PaymentRef(1),
                         !.amountPaid = CONSULTATION_FEE])
                  @@ (2 :> NewSession(2, 1, "P1"))
  /\ profiles = [pro \in {"P1"} |->
                  [NoProfile EXCEPT !.isVerified = TRUE,
                                    !.totalEarnings = PROFESSIONAL_EARNING]]
  /\ reviews = << >>
  /\ client = [totalSessions |-> 0, activeSessions |-> 0]
  /\ reqs = [p \in {1} |-> Idle]
  /\ sockets = [c \in {1} |-> NoSocket]
  /\ msgs = {}
  /\ outcome = NoOutcome

NextIso ==
  \/ Handshake
  \/ ConsultationMessage
  \/ JoinConsultation
  \/ MessageSend
  \/ StatusQuery
  \/ \E by \in world.people, s \in world.sids : getSessionMessages(by, s)
  \/ Tick

SpecIso == InitIso /\ [][NextIso]_vars

\* the fixed-fee booking flow: payments processed by the booking endpoint,
\* the verify endpoint and the webhook, two at a time
InitPay ==
  InitState([sids |-> {1, 2, 3}, slots |-> {1, 2}, socks |-> {}, pros |-> {"P1"},
             people |-> {}])

ProcessPayment ==
  \/ \E p \in world.slots, ref \in DOMAIN gateway :
       \E entry \in {"bookConsultation", "verifyPayment", "paystackWebhook"} :
         BeginProcessPayment(p, entry, ref)
  \/ \E p \in world.slots : FinishProcessPayment(p)

NextPay ==
  \/ \E pro \in world.pros : initializeConsultation(pro)
  \/ \E ref \in DOMAIN gateway : GatewayCharge(ref)
  \/ ProcessPayment

SpecPay == InitPay /\ [][NextPay]_vars

\* one session booked, paid and extended by one request at a time
InitExt ==
  InitState([sids |-> {1}, slots |-> {1}, socks |-> {}, pros |-> {"P1"},
             people |-> {ClientOf(1)}])

NextExt ==
  \/ Booking
  \/ Verification
  \/ Tick

SpecExt == InitExt /\ [][NextExt]_vars

\* one session booked by the hour, one request at a time. Time passes and a
\* request in flight completes; nothing schedules the sweep, and a status
\* query is sent only when the client chooses to
InitLive ==
  InitState([sids |-> {1}, slots |-> {1}, socks |-> {}, pros |-> {"P1"},
             people |-> {ClientOf(1)}])

NextLive ==
  \/ \E s \in world.sids, h \in 1..MaxHours, pro \in world.pros :
       InitializeConsultationPayment(s, h, pro)
  \/ \E ref \in DOMAIN gateway : GatewayCharge(ref)
  \/ \E p \in world.slots, ref \in DOMAIN gateway : BeginVerify(p, ref)
  \/ \E p \in world.slots : VerifyNotConfirmed(p)
  \/ \E p \in world.slots : FinishVerifyInitial(p)
  \/ StatusQuery
  \/ expireOldSessions
  \/ Tick

SpecLive ==
  /\ InitLive
  /\ [][NextLive]_vars
  /\ WF_vars(Tick)
  /\ WF_vars(\E p \in world.slots : FinishVerifyInitial(p))
  /\ WF_vars(\E p \in world.slots : FinishStatus(p))

\* two sessions booked by the hour, one request at a time, the sweep the only
\* way to expire
InitSweep ==
  InitState([sids |-> {1, 2}, slots |-> {1}, socks |-> {}, pros |-> {"P1"},
             people |-> {}])

NextSweep ==
  \/ \E s \in world.sids, h \in 1..MaxHours, pro \in world.pros :
       InitializeConsultationPayment(s, h, pro)
  \/ \E ref \in DOMAIN gateway : GatewayCharge(ref)
  \/ \E p \in world.slots, ref \in DOMAIN gateway : BeginVerify(p, ref)
  \/ \E p \in world.slots : VerifyNotConfirmed(p)
  \/ \E p \in world.slots : FinishVerifyInitial(p)
  \/ expireOldSessions
  \/ Tick

SpecSweep == InitSweep /\ [][NextSweep]_vars

\* one session booked by the hour, one request at a time, days between the
\* booking and the confirmation of its payment
InitToken ==
  InitState([sids |-> {1}, slots |-> {1}, socks |-> {}, pros |-> {"P1"},
             people |-> {ClientOf(1)}])

NextToken ==
  \/ \E s \in world.sids, h \in 1..MaxHours, pro \in world.pros :
       InitializeConsultationPayment(s, h, pro)
  \/ \E ref \in DOMAIN gateway : GatewayCharge(ref)
  \/ \E p \in world.slots, ref \in DOMAIN gateway : BeginVerify(p, ref)
  \/ \E p \in world.slots : VerifyNotConfirmed(p)
  \/ \E p \in world.slots : FinishVerifyInitial(p)
  \/ Tick
  \/ TickDay

SpecToken == InitToken /\ [][NextToken]_vars

\* one session id, one request at a time: both ways of confirming a payment
\* reference, the hourly booking with its extensions and the fixed-fee booking
InitVerify ==
  InitState([sids |-> {1}, slots |-> {1}, socks |-> {}, pros |-> {"P1"},
             people |-> {}])

NextVerify ==
  \/ Booking
  \/ Verification
  \/ \E pro \in world.pros : initializeConsultation(pro)
  \/ ProcessPayment

SpecVerify == InitVerify /\ [][NextVerify]_vars

\* one session, either booked by the hour or stored by the seed script, two
\* requests at a time, the client and somebody without a token: the
\* lifecycle with the review endpoint
InitReview ==
  /\ now = 0
  /\ world = [sids |-> {1}, slots |-> {1, 2}, socks |-> {}, pros |-> {"P1"},
              people |-> {ClientOf(1), Outsider}]
  /\ sessions \in {[s \in {1} |-> NoDoc], [s \in {1} |-> SeededSession(s, "P1")]}
  /\ gateway = << >>
  /\ client = [totalSessions |-> 0, activeSessions |-> 0]
  /\ reqs = [p \in {1, 2} |-> Idle]
  /\ sockets = << >>
  /\ msgs = {}
  /\ outcome = NoOutcome
  /\ payments = << >>
  /\ profiles = [pro \in {"P1"} |-> [NoProfile EXCEPT !.isVerified = TRUE]]
  /\ reviews = << >>

SubmitReview ==
  \/ \E p \in world.slots, by \in world.people, pro \in world.pros,
        s \in world.sids, rating \in Ratings :
       \E tok \in TokenChoices(by) : BeginSubmitReview(p, by, pro, s, tok, rating)
  \/ \E p \in world.slots : ReviewFindOne(p)
  \/ \E p \in world.slots : ReviewCreate(p)
  \/ \E p \in world.slots : ProfileFindOne(p)
  \/ \E p \in world.slots : updateRating(p)

NextReview ==
  \/ \E s \in world.sids, h \in 1..MaxHours, pro \in world.pros :
       InitializeConsultationPayment(s, h, pro)
  \/ \E ref \in DOMAIN gateway : GatewayCharge(ref)
  \/ \E p \in world.slots, ref \in DOMAIN gateway : BeginVerify(p, ref)
  \/ \E p \in world.slots : VerifyNotConfirmed(p)
  \/ \E p \in world.slots : FinishVerifyInitial(p)
  \/ expireOldSessions
  \/ SubmitReview
  \/ Tick

SpecReview == InitReview /\ [][NextReview]_vars

\* one session booked by the hour, one socket, the client and the
\* professional: the lifecycle with the signaling events
InitSignal ==
  InitState([sids |-> {1}, slots |-> {1}, socks |-> {1}, pros |-> {"P1"},
             people |-> {ClientOf(1), StaffOf("P1")}])

ConsultationSignal ==
  \E c \in world.socks, s \in world.sids : consultationSignal(c, s)

CallSignal ==
  \E c \in world.socks :
    \E tok \in TokenChoices(sockets[c].by) : callSignal(c, tok)

NextSignal ==
  \/ \E s \in world.sids, h \in 1..MaxHours, pro \in world.pros :
       InitializeConsultationPayment(s, h, pro)
  \/ \E ref \in DOMAIN gateway : GatewayCharge(ref)
  \/ \E p \in world.slots, ref \in DOMAIN gateway : BeginVerify(p, ref)
  \/ \E p \in world.slots : VerifyNotConfirmed(p)
  \/ \E p \in world.slots : FinishVerifyInitial(p)
  \/ Handshake
  \/ ConsultationSignal
  \/ CallSignal
  \/ expireOldSessions
  \/ Tick

SpecSignal == InitSignal /\ [][NextSignal]_vars

\* one session booked through the fixed-fee flow, two sockets, the client and
\* the professional, one event at a time
InitRoom ==
  /\ now = 0
  /\ world = [sids |-> {1}, slots |-> {1}, socks |-> {1, 2}, pros |-> {"P1"},
              people |-> {ClientOf(1), StaffOf("P1")}]
  /\ payments = (PaymentRef(1) :>
                   [userId |-> "P1", paymentType |-> "consultation",
                    amount |-> CONSULTATION_FEE, status |-> "completed"])
  /\ gateway = (PaymentRef(1) :> [additionalHours |-> 0, status |-> "success"])
  /\ sessions = (1 :> [NoDoc EXCEPT !.exists = TRUE, !.professionalId = "P1",
                         !.sessionToken = [kind |-> "client_session", sid |-> 1,
                                           exp |-> CLIENT_TOKEN_TTL],
                         !.status = "pending", !.paymentId = PaymentRef(1),
                         !.amountPaid = CONSULTATION_FEE])
  /\ profiles = [pro \in {"P1"} |->
                  [NoProfile EXCEPT !.isVerified = TRUE,
                                    !.totalEarnings = PROFESSIONAL_EARNING]]
  /\ reviews = << >>
  /\ client = [totalSessions |-> 0, activeSessions |-> 0]
  /\ reqs = [p \in {1} |-> Idle]
  /\ sockets = [c \in {1, 2} |-> NoSocket]
  /\ msgs = {}
  /\ outcome = NoOutcome

SessionMessages ==
  \E by \in world.people, s \in world.sids : getSessionMessages(by, s)

NextRoom ==
  \/ Handshake
  \/ ConsultationMessage
  \/ JoinConsultation
  \/ MessageSend
  \/ SessionMessages

SpecRoom == InitRoom /\ [][NextRoom]_vars

\* ------------------------------------------------------------------- properties
\* the extension records of a session
ExtensionsOf(s) == {sessions[s].extensions[i] : i \in 1..Len(sessions[s].extensions)}

\* C1: a session whose status is active has a confirmed initial charge
\* (paymentStatus = completed), whichever path activated it: payment
\* verification, the first chat message or a room join.
C1_ActiveSessionsArePaid ==
  \A s \in ExistingIds :
    (sessions[s].status = "active" /\ sessions[s].paymentReference # NoRef)
      => sessions[s].paymentStatus = "completed"

\* C2: verifying the same extension payment reference more than once applies
\* the extension at most once: the extensions list holds at most one record
\* with that reference.
C2_ExtensionAppliedOnce ==
  \A s \in ExistingIds :
    \A i, j \in 1..Len(sessions[s].extensions) :
      sessions[s].extensions[i].paymentReference = sessions[s].extensions[j].paymentReference
        => i = j

\* C3: processing the same initial consultation payment reference more than
\* once, by the booking endpoint, the verify endpoint or the webhook, never
\* leaves more than one session for that reference.
C3_OneSessionPerPayment ==
  \A ref \in DOMAIN payments : Cardinality(SessionsOfPayment(ref)) <= 1

\* C4: an extension whose payment is confirmed when now > expiresAt is
\* rejected: no extension record is ever written at an instant later than the
\* expiresAt it extends.
C4_NoExtensionPastExpiry ==
  \A s \in ExistingIds :
    \A ext \in ExtensionsOf(s) :
      ext.extendedAt <= ext.newExpiresAt - ext.additionalHours * HourMs

\* C5: when an expiry races an extension of the same session, the session
\* never ends with status expired while it holds a recorded extension whose
\* time has not run out: a paid extension is never silently lost.
C5_PaidExtensionNotLost ==
  \A s \in ExistingIds :
    (sessions[s].status = "expired" /\ sessions[s].extensions # << >>)
      => isExpired(sessions[s], now)

\* C6: once a session's status is expired, completed or cancelled, no
\* operation changes its status again.
C6_TerminalIsFinal ==
  [][\A s \in world.sids :
       sessions[s].status \in Terminal => sessions'[s].status = sessions[s].status]_vars

\* C7: a request made with a client credential bound to session A (a session
\* token, or a socket bound to A as client) that is about another session B
\* never succeeds and is always rejected as Unauthorized.
C7_OtherSessionIsUnauthorized ==
  (outcome.cred # 0 /\ outcome.sid # 0 /\ outcome.sid # outcome.cred)
    => outcome.result = "Unauthorized"

\* C8: a message is accepted with the professional role only from a sender
\* that authenticated as the staff member who owns the session; claiming a
\* professionalId in the handshake or declaring senderType professional is
\* not enough.
C8_ProfessionalIsAuthenticated ==
  \A m \in AllMessages :
    m.senderType = "professional" => m.by = StaffOf(sessions[m.sessionId].professionalId)

\* C9: no chat message is persisted or fanned out for a session whose status
\* is terminal or whose expiry instant has passed when the send arrives, on
\* any send path.
C9_NoMessageAfterClose ==
  \A m \in AllMessages : ~m.closed

\* C10: on every activation path, a session created with hours >= 1 is
\* active with expiresAt - startedAt = hours x 1 hour exactly.
C10_ActivationDuration ==
  \A s \in ExistingIds :
    (sessions[s].status = "active" /\ sessions[s].durationHours # NULL
       /\ ~sessions[s].isExtended)
      => /\ sessions[s].startedAt # NULL
         /\ sessions[s].expiresAt # NULL
         /\ sessions[s].expiresAt - sessions[s].startedAt = sessions[s].durationHours * HourMs

\* the hours bought by a list of extension records
RECURSIVE SumAdditionalHours(_)
SumAdditionalHours(exts) ==
  IF exts = << >> THEN 0 ELSE Head(exts).additionalHours + SumAdditionalHours(Tail(exts))

\* C11: an activated session has expiresAt = startedAt + (selected hours +
\* the additionalHours of all its recorded extensions) x 1 hour, also after
\* two extensions with different references were verified concurrently.
C11_ExpiryIsStartPlusDuration ==
  \A s \in ExistingIds :
    (sessions[s].startedAt # NULL /\ sessions[s].durationHours # NULL)
      => sessions[s].expiresAt =
           sessions[s].startedAt
             + (sessions[s].durationHours + SumAdditionalHours(sessions[s].extensions)) * HourMs

\* the extension record appended last
LastExtension(doc) == doc.extensions[Len(doc.extensions)]

\* C12: a successful extension of an active session that is not past its
\* expiry moves expiresAt by exactly additionalHours x 1 hour and the amount
\* paid by exactly additionalHours x pricePerHour, and appends exactly one
\* record, whose newExpiresAt is the new expiresAt, after the earlier records.
C12_ExtendAddsExactly ==
  [][\A s \in world.sids :
       (/\ Len(sessions'[s].extensions) > Len(sessions[s].extensions)
        /\ ~isExpired(sessions[s], now))
         => LET ext == LastExtension(sessions'[s])
            IN /\ sessions[s].status = "active"
               /\ ext.additionalHours = gateway[ext.paymentReference].additionalHours
               /\ sessions'[s].expiresAt = sessions[s].expiresAt + ext.additionalHours * HourMs
               /\ sessions'[s].paymentAmount =
                    sessions[s].paymentAmount
                      + calculateExtensionCost(sessions[s], ext.additionalHours)
               /\ ext.newExpiresAt = sessions'[s].expiresAt
               /\ sessions'[s].extensions = Append(sessions[s].extensions, ext)]_vars

\* a second extension has just been applied to a session before its expiry
C12_Witness ==
  /\ outcome.op = "verify"
  /\ outcome.result = "extended"
  /\ Len(sessions[1].extensions) = 2
  /\ sessions[1].status = "active"
  /\ LastExtension(sessions[1]).extendedAt
       <= LastExtension(sessions[1]).newExpiresAt
            - LastExtension(sessions[1]).additionalHours * HourMs

\* C13: a session is activated exactly once: whichever trigger comes later
\* (a duplicate verification, a chat message, a room join) leaves the
\* startedAt and the expiresAt the first trigger stamped.
C13_ActivatedOnce ==
  [][\A s \in world.sids :
       (sessions[s].startedAt # NULL /\ sessions'[s].extensions = sessions[s].extensions)
         => /\ sessions'[s].startedAt = sessions[s].startedAt
            /\ sessions'[s].expiresAt = sessions[s].expiresAt]_vars

\* the sockets that are a party to a session: bound to it as its client,
\* bound as its professional, or joined to its room with its token
Parties(s) ==
  {c \in world.socks :
     \/ sockets[c].userType = "client" /\ sockets[c].sessionId = s
     \/ sockets[c].userType = "professional"
          /\ sockets[c].professionalId = sessions[s].professionalId
     \/ s \in sockets[c].rooms}

\* C14: a chat message that was sent is delivered to every other connection
\* of the session and not to the connection that sent it.
C14_DeliveredToOthersOnly ==
  (outcome.result = "sent" /\ outcome.op \in {"consultation:message", "message:send"})
    => outcome.delivered = Parties(outcome.sid) \ {outcome.from}

\* C15: a signaling payload is forwarded only through the gate of the chat:
\* the sender is a party of the session, the session is pending or active and
\* its expiry has not passed; forwarding writes no message and leaves the
\* session as it is.
C15_SignalPassesChatGate ==
  /\ [](outcome.result = "forwarded" =>
          /\ outcome.by \in {ClientOf(outcome.sid),
                             StaffOf(sessions[outcome.sid].professionalId)}
          /\ sessions[outcome.sid].status \in {"pending", "active"}
          /\ ~isExpired(sessions[outcome.sid], now))
  /\ [][outcome'.result = "forwarded" => UNCHANGED <<sessions, msgs>>]_vars

\* the session the submission names has been closed, by timeout or by a party
ReviewableStatus == {"expired", "ended"}

\* C16: a review submitted with the session's own client token passes the
\* status gate when the session is expired or ended and is rejected when it
\* is pending or active; with any other token it is rejected whatever the
\* status.
C16_ReviewGate ==
  [][/\ \A p \in world.slots :
          (reqs[p].op = "idle" /\ reqs'[p].op = "submitReview")
             => /\ reqs'[p].cred = reqs'[p].sid
                /\ sessions[reqs'[p].sid].status \in ReviewableStatus
     /\ (outcome'.op = "submitReview" /\ outcome'.result \in {"InvalidSession", "NotEnded"})
          => ~(/\ outcome'.sid \in ExistingIds
               /\ outcome'.cred = outcome'.sid
               /\ sessions[outcome'.sid].status \in ReviewableStatus)]_vars

\* C17: a session never has more than one review, two concurrent submissions
\* included; a submission that finds the session reviewed is rejected and the
\* professional's rating aggregate counts exactly the recorded reviews.
C17_OneReviewPerSession ==
  /\ [](\A s \in world.sids : Cardinality(ReviewsOf(s)) <= 1)
  /\ [](\A pro \in world.pros :
          profiles[pro].totalReviews
            <= Cardinality({i \in 1..Len(reviews) : reviews[i].professionalId = pro}))
  /\ [][\A p \in world.slots :
          (reqs[p].op \in {"submitReview", "Review.create"} /\ reqs'[p].op = "idle"
             /\ ReviewsOf(reqs[p].sid) # {})
            => /\ outcome'.result \in {"AlreadyReviewed", "AlreadyExists"}
               /\ UNCHANGED <<reviews, profiles>>]_vars

C17_Witness ==
  /\ outcome.op = "submitReview" /\ outcome.result = "AlreadyExists"
  /\ Cardinality(ReviewsOf(outcome.sid)) = 1

\* C18: a valid chat message of the client to a pending session activates
\* the session with startedAt and expiresAt stamped; every message sent is
\* recorded, moves lastMessageAt and, from the client, raises the unread flag;
\* a message of the professional leaves the unread flag as it was.
C18_ClientMessageActivates ==
  [][(outcome'.op = "consultation:message" /\ outcome'.result = "sent")
       => LET s == outcome'.sid
          IN /\ msgs' # msgs
             /\ \A m \in msgs' \ msgs :
                  /\ m.sessionId = s
                  /\ sessions'[s].lastMessageAt = now
                  /\ m.senderType = "client" => sessions'[s].hasUnreadMessages
                  /\ m.senderType = "professional" =>
                       sessions'[s].hasUnreadMessages = sessions[s].hasUnreadMessages
                  /\ (m.senderType = "client" /\ sessions[s].status = "pending") =>
                       /\ sessions'[s].status = "active"
                       /\ sessions'[s].startedAt = now
                       /\ sessions'[s].expiresAt \notin {NULL, NaNDate}]_vars

\* C19: once the professional has read the messages of a session its unread
\* flag is false, and the flag turns true again only when a message of the
\* client is recorded.
C19_ReadClearsUnread ==
  /\ [][(outcome'.op = "messages" /\ outcome'.result = "read")
          => ~sessions'[outcome'.sid].hasUnreadMessages]_vars
  /\ [][\A s \in world.sids :
          (~sessions[s].hasUnreadMessages /\ sessions'[s].hasUnreadMessages)
            => \E m \in AllMessages' \ AllMessages :
                 m.sessionId = s /\ m.senderType = "client"]_vars

\* C20: the isActive of a status response is true exactly when the status
\* is active and the time is before expiresAt: false at expiresAt itself and
\* after it, false for a pending or terminal session.
C20_IsActiveExactly ==
  (outcome.op = "status" /\ outcome.result = "read")
    => (outcome.data.isActive <=>
          /\ outcome.data.status = "active"
          /\ outcome.data.expiresAt \notin {NULL, NaNDate}
          /\ now < outcome.data.expiresAt)

\* C21: a confirmation the gateway did not give (error, timeout, charge not
\* successful) changes no session, payment, earnings or counter, and leaves
\* nothing behind in the request: a retry starts as a first attempt does.
C21_UnverifiedChangesNothing ==
  [][outcome'.result = "PaymentUnverified"
       => /\ UNCHANGED <<sessions, payments, profiles, client, gateway, msgs, reviews>>
          /\ \A p \in world.slots : reqs'[p] # reqs[p] => reqs'[p] = Idle]_vars

C21_Witness ==
  /\ outcome.op = "verify" /\ outcome.result = "PaymentUnverified"
  /\ sessions[outcome.sid].status = "pending"
  /\ sessions[outcome.sid].paymentStatus = "pending"
  /\ gateway[InitialRef(outcome.sid)].status = "success"

\* C22: while a session is active and its expiresAt has not passed, the
\* token issued for it is still valid.
C22_TokenCoversSession ==
  \A s \in ExistingIds :
    (/\ sessions[s].status = "active"
     /\ sessions[s].expiresAt \notin {NULL, NaNDate}
     /\ now <= sessions[s].expiresAt)
      => TokenValid(sessions[s].sessionToken, now)

\* C23: the sweep is idempotent: a second run at the same time, with nothing
\* in between, changes no session.
C23_SweepIdempotent ==
  /\ [](Sweep(Sweep(sessions, now), now) = Sweep(sessions, now))
  /\ [][(now' = now /\ sessions' = Sweep(sessions, now))
          => Sweep(sessions', now') = sessions']_vars

C23_Witness ==
  /\ \A s \in world.sids : sessions[s].exists /\ sessions[s].status = "expired"
  /\ Sweep(sessions, now) = sessions

\* C26: a sweep expires exactly the active sessions whose expiresAt is before
\* now, changes nothing but their status, and leaves every other session as
\* it is.
C26_SweepFrame ==
  [][(\E s \in world.sids :
        sessions[s].status # "expired" /\ sessions'[s].status = "expired")
       => \A s \in world.sids :
            IF /\ sessions[s].exists /\ sessions[s].status = "active"
               /\ sessions[s].expiresAt \notin {NULL, NaNDate}
               /\ sessions[s].expiresAt < now
              THEN sessions'[s] = [sessions[s] EXCEPT !.status = "expired"]
              ELSE sessions'[s] = sessions[s]]_vars

C26_Witness ==
  \E s, x \in world.sids :
    /\ sessions[s].status = "expired"
    /\ sessions[x].status = "active" /\ sessions[x].expiresAt = now

\* C25: an active session whose expiresAt has passed is eventually expired,
\* with no request of the client or the professional needed for it.
C25_ExpiredEventually ==
  (1 \in ToExpire(now)) ~> (sessions[1].status = "expired")

C27_EndsAtIsExpiresAt ==
  \A s \in ExistingIds : sessions[s].endsAt = sessions[s].expiresAt

\* C28: extensionCount is the number of extension records, isExtended says
\* whether there is one, and currentDuration is selectedDuration plus the
\* hours of the recorded extensions.
C28_ExtensionBookkeeping ==
  \A s \in ExistingIds :
    sessions[s].selectedDuration # NULL =>
      /\ sessions[s].extensionCount = Len(sessions[s].extensions)
      /\ sessions[s].isExtended <=> sessions[s].extensionCount > 0
      /\ sessions[s].currentDuration =
           sessions[s].selectedDuration
             + SumAdditionalHours(sessions[s].extensions) * HourMs

\* C29: with no request in flight, the client's activeSessions counter is the
\* number of its sessions that are active, and it is never negative.
C29_ActiveSessionsCounter ==
  /\ client.activeSessions >= 0
  /\ (\A p \in world.slots : reqs[p].op = "idle")
       => client.activeSessions =
            Cardinality({s \in ExistingIds : sessions[s].status = "active"})

\* C30: with no request in flight, a professional's totalEarnings is the
\* per-session earning once for every confirmed consultation payment, however
\* often its reference was verified.
C30_EarningsOncePerPayment ==
  (\A p \in world.slots : reqs[p].op = "idle")
    => \A pro \in world.pros :
         profiles[pro].totalEarnings =
           PROFESSIONAL_EARNING *
             Cardinality({ref \in DOMAIN payments :
                            /\ payments[ref].userId = pro
                            /\ payments[ref].status = "completed"})

====
